---- MODULE Spec2Model ----
(***************************************************************************)
(* Transcript reconstruction of src-tauri/src/lib.rs                       *)
(* (load_session_messages): a single forward fold over the lines of a      *)
(* session log that builds the list of SessionMessage values, correlating  *)
(* tool_use items with later tool_result items through tool_index.         *)
(*                                                                         *)
(* Strings that the code inspects character by character (text payloads,   *)
(* message content) are sequences of one-character strings, so that trim,  *)
(* join and push_str are computed, not assumed.  Identifiers are TLA+      *)
(* strings.  Option<T> is a sequence of length 0 (None) or 1 (Some).       *)
(* A JSON object is a record; a field the object lacks is a field the      *)
(* record lacks.  Vec indices kept in tool_index are 0-based as in the     *)
(* source.                                                                 *)
(*                                                                         *)
(* The second part models query_claude, cancel_query and                   *)
(* list_active_queries of the same file: concurrent tasks that share the   *)
(* registry AppState.active_queries behind one tokio Mutex (SpecQueries,   *)
(* and FairSpecQueries with the fairness of the runtime).                  *)
(***************************************************************************)
EXTENDS Integers, Sequences, FiniteSets, TLC

\* ------------------------------------------------------------------ bounds
\* Number of log lines one pass consumes.
MaxLines == 3

\* Number of calls of load_session_messages.
MaxCalls == 2

\* Number of query_claude calls, each with its own query id.
MaxQueries == 2

\* Number of tasks that call cancel_query, again and again.
MaxCancels == 2

\* ------------------------------------------------------- Option and strings
None == <<>>
Some(x) == <<x>>

NL == "\n"
Whitespace == {" ", NL}

RECURSIVE TrimStart(_)
TrimStart(s) ==
    IF s = <<>> THEN <<>>
    ELSE IF Head(s) \in Whitespace THEN TrimStart(Tail(s))
    ELSE s

RECURSIVE TrimEnd(_)
TrimEnd(s) ==
    IF s = <<>> THEN <<>>
    ELSE IF s[Len(s)] \in Whitespace THEN TrimEnd(SubSeq(s, 1, Len(s) - 1))
    ELSE s

\* str::trim
Trim(s) == TrimEnd(TrimStart(s))

\* [String]::join("\n")
RECURSIVE Join(_)
Join(ss) ==
    IF ss = <<>> THEN <<>>
    ELSE IF Len(ss) = 1 THEN ss[1]
    ELSE ss[1] \o <<NL>> \o Join(Tail(ss))

\* ------------------------------------------------------------- JSON input
\* Value::get(key) followed by as_str / as_bool: present or absent.
Has(obj, key) == key \in DOMAIN obj

\* serde_json::to_string_pretty of a tool_result content that holds no text
\* item: the rendering of the array, one bracket pair around its items.
ToStringPretty(arr) ==
    IF arr = <<>> THEN <<"[", "]">>
    ELSE <<"[">> \o Join([i \in 1..Len(arr) |-> <<"{", "}">>]) \o <<"]">>

\* Payloads of the content items of the log.
TextA == <<"a">>
TextB == <<"b">>
TextBlank == <<" ">>
TextPadded == <<" ", "c">>

ItemText(t) == [type |-> "text", text |-> t]
ItemTextNoField == [type |-> "text"]
ItemImage == [type |-> "image", source |-> [media_type |-> "image/jpeg", data |-> "d1"]]
ItemImageNoMedia == [type |-> "image", source |-> [data |-> "d2"]]
ItemImageNoData == [type |-> "image", source |-> [media_type |-> "image/jpeg"]]
ItemToolUse(id) == [type |-> "tool_use", name |-> "search", id |-> id, input |-> <<"q">>]
ItemToolUseAnon == [type |-> "tool_use", name |-> "search"]
ItemResultStr(id) == [type |-> "tool_result", tool_use_id |-> id, content |-> [str |-> <<"3">>]]
ItemResultErr(id) == [type |-> "tool_result", tool_use_id |-> id, is_error |-> TRUE]
ItemResultArr(id) ==
    [type |-> "tool_result", tool_use_id |-> id, is_error |-> FALSE,
     content |-> [arr |-> <<ItemText(<<"x">>), ItemText(<<"y">>)>>]]
ItemResultNoText(id) ==
    [type |-> "tool_result", tool_use_id |-> id, content |-> [arr |-> <<ItemImage>>]]
ItemUnknown == [type |-> "thinking"]

\* --------------------------------------------------------- program state
VARIABLES
    messages,                \* Vec<SessionMessage>, the output under construction
    tool_index,              \* HashMap<String, (usize, usize)>
    anonymous_tool_counter,  \* u32
    global_block_order,      \* u64
    log,                     \* the lines content.lines() has yielded so far
    pc,                      \* "loop" inside the for loop, "done" after return
    result,                  \* None while running, then Some("Ok") or Some("Err")
    calls                    \* how many calls of the command have been entered

\* The state of query_claude, cancel_query and list_active_queries: the
\* registry AppState.active_queries behind its tokio Mutex, the tasks that
\* run the three commands, and the child processes.
VARIABLES
    active_queries,  \* the keys of the HashMap<String, ActiveQuery>
    lock,            \* "free", or the task that holds the MutexGuard
    query_pc,        \* where each query_claude call stands
    query_result,    \* "none", then "Ok" or the Err with its message
    child,           \* each query's child process
    done_emitted,    \* ids for which the claude-done event went out
    cancel_pc,       \* where each cancel_query task stands
    cancel_arg,      \* the query_id argument of the cancel_query call
    cancel_true,     \* per id, how many cancel_query calls returned true
    list_pc          \* where the list_active_queries task stands

passVars == <<messages, tool_index, anonymous_tool_counter, global_block_order,
              log, pc, result, calls>>

queryVars == <<active_queries, lock, query_pc, query_result, child,
               done_emitted, cancel_pc, cancel_arg, cancel_true, list_pc>>

vars == <<passVars, queryVars>>

\* HashMap::insert
MapInsert(m, k, v) == [x \in DOMAIN m \cup {k} |-> IF x = k THEN v ELSE m[x]]

\* ------------------------------------------------- content block extractor
\* The locals of one loop iteration together with the pass state the
\* match arms update while they walk the content items.
NewLocals(msgs, counter, order) ==
    [content_texts |-> <<>>, tools |-> <<>>, blocks |-> <<>>,
     tool_id_mappings |-> <<>>, messages |-> msgs,
     anonymous_tool_counter |-> counter, global_block_order |-> order]

\* mutant: the text accumulator takes the trimmed text
PushTextTrimmed(st, text) ==
    IF Trim(text) # <<>>
    THEN [st EXCEPT
            !.content_texts = Append(@, Trim(text)),
            !.global_block_order = @ + 1,
            !.blocks = Append(@, [type |-> "text", content |-> text,
                                  order |-> st.global_block_order + 1])]
    ELSE st

\* arm "text", and the Value::String arm of the content match
PushText(st, text) ==
    IF Trim(text) # <<>>
    THEN [st EXCEPT
            !.content_texts = Append(@, text),
            !.global_block_order = @ + 1,
            !.blocks = Append(@, [type |-> "text", content |-> text,
                                  order |-> st.global_block_order + 1])]
    ELSE st

\* mutant: the image arm stamps the Block without advancing the counter
PushImageNoIncrement(st, block) ==
    IF Has(block, "source") /\ Has(block.source, "data")
    THEN [st EXCEPT
            !.blocks = Append(@,
                [type |-> "image",
                 mediaType |-> IF Has(block.source, "media_type")
                               THEN block.source.media_type ELSE "image/png",
                 data |-> block.source.data,
                 order |-> st.global_block_order])]
    ELSE st

\* mutant: an image without a media type gets no default
PushImageNoDefault(st, block) ==
    IF Has(block, "source") /\ Has(block.source, "data")
    THEN [st EXCEPT
            !.global_block_order = @ + 1,
            !.blocks = Append(@,
                [type |-> "image",
                 mediaType |-> IF Has(block.source, "media_type")
                               THEN block.source.media_type ELSE "",
                 data |-> block.source.data,
                 order |-> st.global_block_order + 1])]
    ELSE st

\* arm "image"
PushImage(st, block) ==
    IF Has(block, "source") /\ Has(block.source, "data")
    THEN [st EXCEPT
            !.global_block_order = @ + 1,
            !.blocks = Append(@,
                [type |-> "image",
                 mediaType |-> IF Has(block.source, "media_type")
                               THEN block.source.media_type ELSE "image/png",
                 data |-> block.source.data,
                 order |-> st.global_block_order + 1])]
    ELSE st

\* format!("tool-{}", anonymous_tool_counter)
AnonymousId(n) == "tool-" \o ToString(n)

\* mutant: the counter advances for every tool invocation
CounterAfterAlways(counter, tool_use_id) == counter + 1

\* anonymous_tool_counter after `tool_use_id.clone().unwrap_or_else(..)`
CounterAfter(counter, tool_use_id) ==
    IF tool_use_id = None THEN counter + 1 ELSE counter

\* mutant: a synthesized id is recorded for registration as well
MappingsAfterAlways(mappings, tool_use_id, tool_id, slot) ==
    Append(mappings, <<tool_id, slot>>)

\* tool_id_mappings after `if let Some(id) = tool_use_id { .. push .. }`
MappingsAfter(mappings, tool_use_id, tool_id, slot) ==
    IF tool_use_id = None THEN mappings
    ELSE Append(mappings, <<tool_use_id[1], slot>>)

\* arm "tool_use" if msg_type == "assistant"
PushToolUse(st, block, timestamp) ==
    LET tool_use_id == IF Has(block, "id") THEN Some(block.id) ELSE None
        counter == CounterAfter(st.anonymous_tool_counter, tool_use_id)
        tool_id == IF tool_use_id = None THEN AnonymousId(counter)
                   ELSE tool_use_id[1]
        tool_entry ==
            [id |-> tool_id,
             tool |-> IF Has(block, "name") THEN block.name ELSE "unknown",
             tool_use_id |-> tool_use_id,
             status |-> "running",
             input |-> IF Has(block, "input") THEN Some(block.input) ELSE None,
             output |-> None,
             started_at |-> timestamp,
             completed_at |-> None]
    IN [st EXCEPT
            !.anonymous_tool_counter = counter,
            !.tools = Append(@, tool_entry),
            !.global_block_order = @ + 1,
            !.blocks = Append(@, [type |-> "tool", toolId |-> tool_id,
                                  order |-> st.global_block_order + 1]),
            !.tool_id_mappings =
                MappingsAfter(@, tool_use_id, tool_id, Len(st.tools))]

\* the texts of the text items of a tool_result content array
RECURSIVE ResultTexts(_)
ResultTexts(arr) ==
    IF arr = <<>> THEN <<>>
    ELSE (IF Head(arr).type = "text" /\ Has(Head(arr), "text")
          THEN <<Head(arr).text>> ELSE <<>>) \o ResultTexts(Tail(arr))

\* the output of a tool_result item
ResultOutput(block) ==
    IF ~Has(block, "content") THEN None
    ELSE IF Has(block.content, "str") THEN Some(block.content.str)
    ELSE IF ResultTexts(block.content.arr) = <<>>
         THEN Some(ToStringPretty(block.content.arr))
    ELSE Some(Join(ResultTexts(block.content.arr)))

\* mutant: an absent error flag counts as an error
ResultStatusAbsentIsError(block) ==
    IF Has(block, "is_error") /\ ~block.is_error THEN "completed" ELSE "error"

\* `is_error` with unwrap_or(false), and the status it selects
ResultStatus(block) ==
    IF Has(block, "is_error") /\ block.is_error THEN "error" ELSE "completed"

\* mutant: a result that finds no entry leaves a placeholder Tool block
OrphanPlaceholder(st, block) ==
    [st EXCEPT
        !.global_block_order = @ + 1,
        !.blocks = Append(@, [type |-> "tool", toolId |-> "orphan",
                              order |-> st.global_block_order + 1])]

\* a tool_result whose id is not in tool_index: nothing happens
OrphanResult(st, block) == st

\* mutant: a result that finds its entry leaves a Tool block of its own
ApplyToolResultWithBlock(st, index, block, timestamp) ==
    IF Has(block, "tool_use_id") /\ block.tool_use_id \in DOMAIN index
    THEN LET msg_idx == index[block.tool_use_id][1]
             tool_idx == index[block.tool_use_id][2]
         IN IF /\ msg_idx < Len(st.messages)
               /\ st.messages[msg_idx + 1].tools # None
               /\ tool_idx < Len(st.messages[msg_idx + 1].tools[1])
            THEN [st EXCEPT
                    !.messages[msg_idx + 1].tools[1][tool_idx + 1] =
                        [@ EXCEPT
                            !.status = ResultStatus(block),
                            !.output = ResultOutput(block),
                            !.completed_at = Some(timestamp)],
                    !.global_block_order = @ + 1,
                    !.blocks = Append(@, [type |-> "tool",
                                          toolId |-> block.tool_use_id,
                                          order |-> st.global_block_order + 1])]
            ELSE st
    ELSE OrphanResult(st, block)

\* mutant: a result sets status and output but no completion timestamp
ApplyToolResultNoCompletion(st, index, block, timestamp) ==
    IF Has(block, "tool_use_id") /\ block.tool_use_id \in DOMAIN index
    THEN LET msg_idx == index[block.tool_use_id][1]
             tool_idx == index[block.tool_use_id][2]
         IN IF /\ msg_idx < Len(st.messages)
               /\ st.messages[msg_idx + 1].tools # None
               /\ tool_idx < Len(st.messages[msg_idx + 1].tools[1])
            THEN [st EXCEPT !.messages[msg_idx + 1].tools[1][tool_idx + 1] =
                    [@ EXCEPT
                        !.status = ResultStatus(block),
                        !.output = ResultOutput(block)]]
            ELSE st
    ELSE OrphanResult(st, block)

\* mutant: a result also stamps the Message that holds its ToolExecution
ApplyToolResultStampingMessage(st, index, block, timestamp) ==
    IF Has(block, "tool_use_id") /\ block.tool_use_id \in DOMAIN index
    THEN LET msg_idx == index[block.tool_use_id][1]
             tool_idx == index[block.tool_use_id][2]
         IN IF /\ msg_idx < Len(st.messages)
               /\ st.messages[msg_idx + 1].tools # None
               /\ tool_idx < Len(st.messages[msg_idx + 1].tools[1])
            THEN [st EXCEPT
                    !.messages[msg_idx + 1].tools[1][tool_idx + 1] =
                        [@ EXCEPT
                            !.status = ResultStatus(block),
                            !.output = ResultOutput(block),
                            !.completed_at = Some(timestamp)],
                    !.messages[msg_idx + 1].timestamp = timestamp]
            ELSE st
    ELSE OrphanResult(st, block)

\* arm "tool_result" if msg_type == "user"
ApplyToolResult(st, index, block, timestamp) ==
    IF Has(block, "tool_use_id") /\ block.tool_use_id \in DOMAIN index
    THEN LET msg_idx == index[block.tool_use_id][1]
             tool_idx == index[block.tool_use_id][2]
         IN IF /\ msg_idx < Len(st.messages)
               /\ st.messages[msg_idx + 1].tools # None
               /\ tool_idx < Len(st.messages[msg_idx + 1].tools[1])
            THEN [st EXCEPT !.messages[msg_idx + 1].tools[1][tool_idx + 1] =
                    [@ EXCEPT
                        !.status = ResultStatus(block),
                        !.output = ResultOutput(block),
                        !.completed_at = Some(timestamp)]]
            ELSE st
    ELSE OrphanResult(st, block)

\* mutant: the tool arms are taken whatever the type of the event
ExtractItemUngated(st, index, block, msg_type, timestamp) ==
    IF block.type = "text" THEN
        IF Has(block, "text") THEN PushText(st, block.text) ELSE st
    ELSE IF block.type = "image" THEN PushImage(st, block)
    ELSE IF block.type = "tool_use" THEN
        PushToolUse(st, block, timestamp)
    ELSE IF block.type = "tool_result" THEN
        ApplyToolResult(st, index, block, timestamp)
    ELSE st

\* one iteration of `for block in arr`
ExtractItem(st, index, block, msg_type, timestamp) ==
    IF block.type = "text" THEN
        IF Has(block, "text") THEN PushText(st, block.text) ELSE st
    ELSE IF block.type = "image" THEN PushImage(st, block)
    ELSE IF block.type = "tool_use" /\ msg_type = "assistant" THEN
        PushToolUse(st, block, timestamp)
    ELSE IF block.type = "tool_result" /\ msg_type = "user" THEN
        ApplyToolResult(st, index, block, timestamp)
    ELSE st

RECURSIVE ExtractItems(_, _, _, _, _)
ExtractItems(st, index, arr, msg_type, timestamp) ==
    IF arr = <<>> THEN st
    ELSE ExtractItems(ExtractItem(st, index, Head(arr), msg_type, timestamp),
                      index, Tail(arr), msg_type, timestamp)

\* match content_value { String / Array / _ }
ExtractContent(st, index, message, msg_type, timestamp) ==
    IF ~Has(message, "content") THEN st
    ELSE IF Has(message.content, "str") THEN PushText(st, message.content.str)
    ELSE IF Has(message.content, "arr") THEN
        ExtractItems(st, index, message.content.arr, msg_type, timestamp)
    ELSE st

\* mutant: one more event kind is let through to the extractor
DecodeSummaryToo(line) ==
    IF line.kind = "empty" THEN None
    ELSE IF line.kind = "invalid" THEN None
    ELSE LET msg_type == IF Has(line.v, "type") THEN line.v.type ELSE ""
         IN IF msg_type \notin {"user", "assistant", "summary"} THEN None
            ELSE IF ~Has(line.v, "message") THEN None
            ELSE Some(line.v)

\* ------------------------------------------------------------ record decoder
\* The outcome of the tests at the top of the loop body: the decoded object
\* when the line is a user/assistant event that has a message, else None.
Decode(line) ==
    IF line.kind = "empty" THEN None
    ELSE IF line.kind = "invalid" THEN None
    ELSE LET msg_type == IF Has(line.v, "type") THEN line.v.type ELSE ""
         IN IF msg_type # "user" /\ msg_type # "assistant" THEN None
            ELSE IF ~Has(line.v, "message") THEN None
            ELSE Some(line.v)

MsgType(ev) == ev.type
Timestamp(ev) == IF Has(ev, "timestamp") THEN ev.timestamp ELSE 0
Role(ev) == IF Has(ev.message, "role") THEN ev.message.role ELSE MsgType(ev)

\* --------------------------------------------------------- message aggregator
\* mutant: the slot is registered without the prior length of the tool list
RECURSIVE RegisterWithoutBase(_, _, _, _)
RegisterWithoutBase(index, mappings, msg_idx, base) ==
    IF mappings = <<>> THEN index
    ELSE RegisterWithoutBase(MapInsert(index, Head(mappings)[1],
                                       <<msg_idx, Head(mappings)[2]>>),
                             Tail(mappings), msg_idx, base)

\* mutant: an id that is already in the table keeps its first entry
RECURSIVE RegisterKeepingFirst(_, _, _, _)
RegisterKeepingFirst(index, mappings, msg_idx, base) ==
    IF mappings = <<>> THEN index
    ELSE RegisterKeepingFirst(
            IF Head(mappings)[1] \in DOMAIN index THEN index
            ELSE MapInsert(index, Head(mappings)[1],
                           <<msg_idx, base + Head(mappings)[2]>>),
            Tail(mappings), msg_idx, base)

\* for (id, idx) in tool_id_mappings { tool_index.insert(id, (msg, base + idx)) }
RECURSIVE Register(_, _, _, _)
Register(index, mappings, msg_idx, base) ==
    IF mappings = <<>> THEN index
    ELSE Register(MapInsert(index, Head(mappings)[1],
                            <<msg_idx, base + Head(mappings)[2]>>),
                  Tail(mappings), msg_idx, base)

\* mutant: the newline is pushed whether or not last.content is empty
MergeContentAlwaysNewline(content, content_text) ==
    IF Trim(content_text) # <<>> THEN content \o <<NL>> \o content_text
    ELSE content

\* last.content after the `if !content_text.trim().is_empty()` statement
MergeContent(content, content_text) ==
    IF Trim(content_text) # <<>>
    THEN (IF content # <<>> THEN content \o <<NL>> ELSE content) \o content_text
    ELSE content

\* mutant: the index handed to get_mut is one too large
InRangeOffByOne(v, idx) == 0 <= idx /\ idx + 1 < Len(v)

\* Vec::get_mut(idx).is_some()
InRange(v, idx) == 0 <= idx /\ idx < Len(v)

\* mutant: the list is replaced by the new items
ExtendReplacing(opt, items) == Some(items)

\* mutant: the new items are put in front of the list
ExtendInFront(opt, items) == IF opt = None THEN Some(items) ELSE Some(items \o opt[1])

\* Option<Vec<T>> extended by a Vec<T>
Extend(opt, items) == IF opt = None THEN Some(items) ELSE Some(opt[1] \o items)

\* "Group consecutive assistant messages"
MergeAssistant(last, content_text, tools, blocks, timestamp) ==
    [last EXCEPT
        !.content = MergeContent(@, content_text),
        !.tools = IF tools # <<>> THEN Extend(@, tools) ELSE @,
        !.blocks = IF blocks # <<>> THEN Extend(@, blocks) ELSE @,
        !.timestamp = timestamp]

\* "Group consecutive user messages"
MergeUser(last, content_text, tools, blocks, timestamp) ==
    [last EXCEPT
        !.content = MergeContent(@, content_text),
        !.blocks = IF blocks # <<>> THEN Extend(@, blocks) ELSE @,
        !.timestamp = timestamp]

\* messages.push(SessionMessage { .. })
NewMessage(role, content_text, tools, blocks, timestamp) ==
    [role |-> role, content |-> content_text, timestamp |-> timestamp,
     tools |-> IF tools # <<>> THEN Some(tools) ELSE None,
     blocks |-> IF blocks = <<>> THEN None ELSE Some(blocks)]

\* mutant: the test for an empty event is missing
IsEmptyEventNever(content_text, tools, blocks) == FALSE

\* `content_text.trim().is_empty() && !has_tools && !has_blocks`
IsEmptyEvent(content_text, tools, blocks) ==
    Trim(content_text) = <<>> /\ tools = <<>> /\ blocks = <<>>

\* mutant: the role of the last Message is not looked at
SameRoleIgnoringLast(msgs, role, r) == role = r /\ msgs # <<>>

\* mutant: only assistant events are grouped
SameRoleAssistantOnly(msgs, role, r) ==
    role = r /\ r = "assistant" /\ msgs # <<>> /\ msgs[Len(msgs)].role = r

\* `role == r && !messages.is_empty()` and `messages[last_idx].role == r`
SameRoleAsLast(msgs, role, r) ==
    role = r /\ msgs # <<>> /\ msgs[Len(msgs)].role = r

\* The pass state as a record, for the operators that compute one iteration.
PassState(msgs, index, counter, order) ==
    [messages |-> msgs, tool_index |-> index,
     anonymous_tool_counter |-> counter, global_block_order |-> order,
     branch |-> "init", failed |-> FALSE]

\* One iteration of `for line in content.lines()`: the pass state after the
\* body has run on `line`.  branch names the way the body was left.
Iterate(ps, line) ==
    LET dec == Decode(line) IN
    IF dec = None THEN [ps EXCEPT !.branch = "skip"]
    ELSE
    LET ev == dec[1]
        msg_type == MsgType(ev)
        timestamp == Timestamp(ev)
        role == Role(ev)
        st == ExtractContent(
                NewLocals(ps.messages, ps.anonymous_tool_counter,
                          ps.global_block_order),
                ps.tool_index, ev.message, msg_type, timestamp)
        content_text == Join(st.content_texts)
        has_tools == st.tools # <<>>
        after == [ps EXCEPT
                    !.messages = st.messages,
                    !.anonymous_tool_counter = st.anonymous_tool_counter,
                    !.global_block_order = st.global_block_order]
        n == Len(st.messages)
    IN
    IF IsEmptyEvent(content_text, st.tools, st.blocks)
    THEN [after EXCEPT !.branch = "drop"]
    ELSE IF SameRoleAsLast(st.messages, role, "assistant")
    THEN IF ~InRange(st.messages, n - 1)
         THEN [after EXCEPT !.failed = TRUE, !.branch = "error"]
         ELSE [after EXCEPT
                !.messages[n] = MergeAssistant(@, content_text, st.tools,
                                               st.blocks, timestamp),
                !.tool_index =
                    IF has_tools
                    THEN Register(@, st.tool_id_mappings, n - 1,
                                  IF st.messages[n].tools = None THEN 0
                                  ELSE Len(st.messages[n].tools[1]))
                    ELSE @,
                !.branch = "merge_assistant"]
    ELSE IF SameRoleAsLast(st.messages, role, "user")
    THEN IF ~InRange(st.messages, n - 1)
         THEN [after EXCEPT !.failed = TRUE, !.branch = "error"]
         ELSE [after EXCEPT
                !.messages[n] = MergeUser(@, content_text, st.tools, st.blocks,
                                          timestamp),
                !.branch = "merge_user"]
    ELSE [after EXCEPT
            !.messages = Append(@, NewMessage(role, content_text, st.tools,
                                              st.blocks, timestamp)),
            !.tool_index = Register(@, st.tool_id_mappings, n, 0),
            !.branch = "push"]

\* ------------------------------------------------------------------ input
\* An event line: {"type": .., "timestamp": .., "message": {..}}
Event(type, ts, message) ==
    [kind |-> "json", v |-> [type |-> type, timestamp |-> ts, message |-> message]]

\* content payloads of lines whose type is "user"
UserContents ==
    { [str |-> TextA], [str |-> TextBlank],
      [arr |-> <<ItemText(TextB)>>],
      [arr |-> <<ItemImageNoMedia>>],
      [arr |-> <<ItemResultStr("abc")>>],
      [arr |-> <<ItemResultErr("abc")>>],
      [arr |-> <<ItemResultArr("abc"), ItemText(TextPadded)>>],
      [arr |-> <<ItemResultStr("tool-1")>>],
      [arr |-> <<ItemResultNoText("xyz")>>],
      [arr |-> <<ItemToolUse("abc"), ItemText(TextA)>>],
      [arr |-> <<ItemUnknown, ItemTextNoField, ItemImageNoData>>] }

\* content payloads of lines whose type is "assistant"
AssistantContents ==
    { [str |-> TextA],
      [arr |-> <<ItemText(TextB)>>],
      [arr |-> <<ItemText(TextBlank)>>],
      [arr |-> <<ItemToolUse("abc")>>],
      [arr |-> <<ItemToolUseAnon>>],
      [arr |-> <<ItemText(TextA), ItemToolUse("abc"), ItemText(TextB)>>],
      [arr |-> <<ItemToolUseAnon, ItemToolUse("xyz")>>],
      [arr |-> <<ItemImage>>],
      [arr |-> <<ItemResultStr("abc"), ItemText(TextA)>>],
      [arr |-> <<ItemText(TextA), ItemText(TextB)>>] }

\* The lines the iterator can yield as line number ts; the line's timestamp
\* is its line number.
Lines(ts) ==
    {[kind |-> "empty"], [kind |-> "invalid"]}
    \cup {[kind |-> "json", v |-> [type |-> "summary", timestamp |-> ts,
                                   message |-> [content |-> [str |-> TextA]]]],
          [kind |-> "json", v |-> [timestamp |-> ts,
                                   message |-> [content |-> [str |-> TextA]]]],
          [kind |-> "json", v |-> [type |-> "user", timestamp |-> ts]]}
    \cup {Event("user", ts, [role |-> "user", content |-> c]) : c \in UserContents}
    \cup {Event("user", ts, [role |-> "user"])}
    \cup {Event("assistant", ts, [content |-> c]) : c \in AssistantContents}
    \cup {Event("assistant", ts, [role |-> "user",
                                  content |-> [arr |-> <<ItemToolUse("abc")>>]]),
          Event("user", ts, [role |-> "assistant",
                             content |-> [arr |-> <<ItemResultStr("abc"),
                                                    ItemText(TextB)>>]]),
          Event("user", ts, [role |-> "system", content |-> [str |-> TextA]])}

\* ------------------------------------------------- the registry of queries
\* Uuid::new_v4().to_string(): every query_claude call has its own id
QueryId(n) == "query-" \o ToString(n)
QueryIds == {QueryId(n) : n \in 1..MaxQueries}

\* the ids cancel_query is called with: those of the queries and one that
\* no query has
CancelArgs == QueryIds \cup {"unknown"}

CancelTasks == 1..MaxCancels
CancelTask(c) == "cancel-" \o ToString(c)

InitQueries ==
    /\ active_queries = {}
    /\ lock = "free"
    /\ query_pc = [q \in QueryIds |-> "idle"]
    /\ query_result = [q \in QueryIds |-> "none"]
    /\ child = [q \in QueryIds |-> "none"]
    /\ done_emitted = {}
    /\ cancel_pc = [c \in CancelTasks |-> "idle"]
    /\ cancel_arg = [c \in CancelTasks |-> "unknown"]
    /\ cancel_true = [id \in CancelArgs |-> 0]
    /\ list_pc = "idle"

\* mutant: the entry is looked up but left in the map
RemoveKeeping(queries, id) == [found |-> id \in queries, queries |-> queries]

\* HashMap::remove: whether there was an entry, and the map without it
Remove(queries, id) == [found |-> id \in queries, queries |-> queries \ {id}]

\* `return Err(..)` / `?` of query_claude
QueryReturn(q, res) ==
    /\ query_pc' = [query_pc EXCEPT ![q] = "returned"]
    /\ query_result' = [query_result EXCEPT ![q] = res]

\* query_claude up to the spawn: a check fails and the call returns Err, or
\* the child is spawned with piped stdout
QueryStart(q) ==
    /\ query_pc[q] = "idle"
    /\ \/ /\ QueryReturn(q, "Err: start")
          /\ UNCHANGED child
       \/ /\ query_pc' = [query_pc EXCEPT ![q] = "spawned"]
          /\ child' = [child EXCEPT ![q] = "running"]
          /\ UNCHANGED query_result
    /\ UNCHANGED <<active_queries, lock, done_emitted,
                   cancel_pc, cancel_arg, cancel_true, list_pc>>
    /\ UNCHANGED passVars

\* the block that locks the registry, inserts the child and drops the guard
QueryInsert(q) ==
    /\ query_pc[q] = "spawned"
    /\ lock = "free"
    /\ active_queries' = active_queries \cup {q}
    /\ query_pc' = [query_pc EXCEPT ![q] = "stream"]
    /\ UNCHANGED <<lock, query_result, child, done_emitted,
                   cancel_pc, cancel_arg, cancel_true, list_pc>>
    /\ UNCHANGED passVars

\* one turn of the while loop on a line the child wrote: the claude-stream
\* event goes out, or app.emit fails and `?` returns Err
QueryStreamLine(q) ==
    /\ query_pc[q] = "stream"
    /\ child[q] = "running"
    /\ \/ UNCHANGED <<query_pc, query_result>>
       \/ QueryReturn(q, "Err: emit")
    /\ UNCHANGED <<active_queries, lock, child, done_emitted,
                   cancel_pc, cancel_arg, cancel_true, list_pc>>
    /\ UNCHANGED passVars

\* reader.next_line() fails (the child wrote bytes that are not UTF-8)
QueryReadError(q) ==
    /\ query_pc[q] = "stream"
    /\ child[q] = "running"
    /\ QueryReturn(q, "Err: read")
    /\ UNCHANGED <<active_queries, lock, child, done_emitted,
                   cancel_pc, cancel_arg, cancel_true, list_pc>>
    /\ UNCHANGED passVars

\* reader.next_line() yields None: the child has closed its stdout
QueryReadEof(q) ==
    /\ query_pc[q] = "stream"
    /\ child[q] \in {"quiet", "exited"}
    /\ query_pc' = [query_pc EXCEPT ![q] = "eof"]
    /\ UNCHANGED <<active_queries, lock, query_result, child, done_emitted, cancel_pc, cancel_arg, cancel_true, list_pc>>
    /\ UNCHANGED passVars

\* `let mut queries = active_queries.lock().await` and queries.remove: with
\* an entry the task goes on to child.wait() holding the guard; without one
\* the query was cancelled and the call returns Ok
QueryCleanup(q) ==
    /\ query_pc[q] = "eof"
    /\ lock = "free"
    /\ LET removed == Remove(active_queries, q) IN
        /\ active_queries' = removed.queries
        /\ IF removed.found
           THEN /\ lock' = q
                /\ query_pc' = [query_pc EXCEPT ![q] = "wait"]
                /\ UNCHANGED query_result
           ELSE /\ QueryReturn(q, "Ok")
                /\ UNCHANGED lock
    /\ UNCHANGED <<child, done_emitted,
                   cancel_pc, cancel_arg, cancel_true, list_pc>>
    /\ UNCHANGED passVars

\* active_query.child.wait().await completes when the child has exited; the
\* guard is dropped at the end of the block
QueryWait(q) ==
    /\ query_pc[q] = "wait"
    /\ child[q] = "exited"
    /\ lock' = "free"
    /\ query_pc' = [query_pc EXCEPT ![q] = "emit"]
    /\ UNCHANGED <<active_queries, query_result, child, done_emitted, cancel_pc, cancel_arg, cancel_true, list_pc>>
    /\ UNCHANGED passVars

\* child.wait() fails: `?` returns Err and drops the guard
QueryWaitFail(q) ==
    /\ query_pc[q] = "wait"
    /\ lock' = "free"
    /\ QueryReturn(q, "Err: wait")
    /\ UNCHANGED <<active_queries, child, done_emitted,
                   cancel_pc, cancel_arg, cancel_true, list_pc>>
    /\ UNCHANGED passVars

\* app.emit("claude-done", ..): the event goes out and the call returns Ok,
\* or the emission fails and the call returns Err
QueryEmitDone(q) ==
    /\ query_pc[q] = "emit"
    /\ \/ /\ done_emitted' = done_emitted \cup {q}
          /\ QueryReturn(q, "Ok")
       \/ /\ QueryReturn(q, "Err: emit")
          /\ UNCHANGED done_emitted
    /\ UNCHANGED <<active_queries, lock, child, cancel_pc, cancel_arg, cancel_true, list_pc>>
    /\ UNCHANGED passVars

\* the child closes its stdout and keeps running
ChildCloseStdout(q) ==
    /\ child[q] = "running"
    /\ child' = [child EXCEPT ![q] = "quiet"]
    /\ UNCHANGED <<active_queries, lock, query_pc, query_result,
                   done_emitted,
                   cancel_pc, cancel_arg, cancel_true, list_pc>>
    /\ UNCHANGED passVars

\* the child exits of its own accord
ChildExit(q) ==
    /\ child[q] \in {"running", "quiet"}
    /\ child' = [child EXCEPT ![q] = "exited"]
    /\ UNCHANGED <<active_queries, lock, query_pc, query_result,
                   done_emitted,
                   cancel_pc, cancel_arg, cancel_true, list_pc>>
    /\ UNCHANGED passVars

\* cancel_query is called with a query id and reaches lock().await
CancelCall(c, id) ==
    /\ cancel_pc[c] = "idle"
    /\ cancel_pc' = [cancel_pc EXCEPT ![c] = "lock"]
    /\ cancel_arg' = [cancel_arg EXCEPT ![c] = id]
    /\ UNCHANGED <<active_queries, lock, query_pc, query_result, child,
                   done_emitted, cancel_true, list_pc>>
    /\ UNCHANGED passVars

\* the guard is taken and queries.remove(&query_id) runs: with an entry the
\* task goes on to kill the child, holding the guard; without one it drops
\* the guard and returns Ok(false)
CancelAcquire(c) ==
    /\ cancel_pc[c] = "lock"
    /\ lock = "free"
    /\ LET removed == Remove(active_queries, cancel_arg[c]) IN
        /\ active_queries' = removed.queries
        /\ IF removed.found
           THEN /\ lock' = CancelTask(c)
                /\ cancel_pc' = [cancel_pc EXCEPT ![c] = "kill"]
                /\ UNCHANGED cancel_arg
           ELSE /\ cancel_pc' = [cancel_pc EXCEPT ![c] = "idle"]
                /\ cancel_arg' = [cancel_arg EXCEPT ![c] = "unknown"]
                /\ UNCHANGED lock
    /\ UNCHANGED <<query_pc, query_result, child, done_emitted, cancel_true, list_pc>>
    /\ UNCHANGED passVars

\* SIGTERM, the sleep of 100 ms, try_wait and child.kill().await: the child
\* has exited when they are over; the guard is dropped and the call returns
\* Ok(true)
CancelKill(c) ==
    /\ cancel_pc[c] = "kill"
    /\ child' = [child EXCEPT ![cancel_arg[c]] = "exited"]
    /\ lock' = "free"
    /\ cancel_true' = [cancel_true EXCEPT ![cancel_arg[c]] = @ + 1]
    /\ cancel_pc' = [cancel_pc EXCEPT ![c] = "idle"]
    /\ cancel_arg' = [cancel_arg EXCEPT ![c] = "unknown"]
    /\ UNCHANGED <<active_queries, query_pc, query_result, done_emitted, list_pc>>
    /\ UNCHANGED passVars

\* list_active_queries is called and reaches lock().await
ListCall ==
    /\ list_pc = "idle"
    /\ list_pc' = "lock"
    /\ UNCHANGED <<active_queries, lock, query_pc, query_result, child,
                   done_emitted, cancel_pc, cancel_arg,
                   cancel_true>>
    /\ UNCHANGED passVars

\* queries.keys().cloned().collect()
ListResult == active_queries

\* the guard is taken, the keys are copied and the guard is dropped
ListAcquire ==
    /\ list_pc = "lock"
    /\ lock = "free"
    /\ list_pc' = "idle"
    /\ UNCHANGED <<active_queries, lock, query_pc, query_result, child,
                   done_emitted, cancel_pc, cancel_arg,
                   cancel_true>>
    /\ UNCHANGED passVars

NextQueries ==
    \/ \E q \in QueryIds : QueryStart(q)
    \/ \E q \in QueryIds : QueryInsert(q)
    \/ \E q \in QueryIds : QueryStreamLine(q)
    \/ \E q \in QueryIds : QueryReadError(q)
    \/ \E q \in QueryIds : QueryReadEof(q)
    \/ \E q \in QueryIds : QueryCleanup(q)
    \/ \E q \in QueryIds : QueryWait(q)
    \/ \E q \in QueryIds : QueryWaitFail(q)
    \/ \E q \in QueryIds : QueryEmitDone(q)
    \/ \E q \in QueryIds : ChildCloseStdout(q)
    \/ \E q \in QueryIds : ChildExit(q)
    \/ \E c \in CancelTasks : \E id \in CancelArgs : CancelCall(c, id)
    \/ \E c \in CancelTasks : CancelAcquire(c)
    \/ \E c \in CancelTasks : CancelKill(c)
    \/ ListCall
    \/ ListAcquire

\* ---------------------------------------------------------------- the pass
Init ==
    /\ messages = <<>>
    /\ tool_index = <<>>
    /\ anonymous_tool_counter = 0
    /\ global_block_order = 0
    /\ log = <<>>
    /\ pc = "loop"
    /\ result = None
    /\ calls = 1
    /\ InitQueries

CurrentState ==
    PassState(messages, tool_index, anonymous_tool_counter, global_block_order)

\* the body of `for line in content.lines()` on the next line of the file
ProcessLine(line) ==
    /\ pc = "loop"
    /\ Len(log) < MaxLines
    /\ LET ps == Iterate(CurrentState, line) IN
        /\ messages' = ps.messages
        /\ tool_index' = ps.tool_index
        /\ anonymous_tool_counter' = ps.anonymous_tool_counter
        /\ global_block_order' = ps.global_block_order
        /\ log' = Append(log, line)
        /\ pc' = IF ps.failed THEN "done" ELSE "loop"
        /\ result' = IF ps.failed THEN Some("Err") ELSE None
        /\ UNCHANGED calls
    /\ UNCHANGED queryVars

\* the iterator is exhausted: Ok(messages)
Return ==
    /\ pc = "loop"
    /\ pc' = "done"
    /\ result' = Some("Ok")
    /\ UNCHANGED <<messages, tool_index, anonymous_tool_counter,
                   global_block_order, log, calls>>
    /\ UNCHANGED queryVars

Next ==
    \/ \E line \in Lines(Len(log) + 1) : ProcessLine(line)
    \/ Return

Spec == Init /\ [][Next]_vars

\* mutant: the Correlation Table outlives the call
CallKeepingIndex ==
    /\ pc = "done"
    /\ calls < MaxCalls
    /\ messages' = <<>>
    /\ tool_index' = tool_index
    /\ anonymous_tool_counter' = 0
    /\ global_block_order' = 0
    /\ log' = <<>>
    /\ pc' = "loop"
    /\ result' = None
    /\ calls' = calls + 1
    /\ UNCHANGED queryVars

\* the command is invoked again after it has returned: the `let mut`
\* statements at the head of the pass run again
Call ==
    /\ pc = "done"
    /\ calls < MaxCalls
    /\ messages' = <<>>
    /\ tool_index' = <<>>
    /\ anonymous_tool_counter' = 0
    /\ global_block_order' = 0
    /\ log' = <<>>
    /\ pc' = "loop"
    /\ result' = None
    /\ calls' = calls + 1
    /\ UNCHANGED queryVars

NextCalls ==
    \/ \E line \in Lines(Len(log) + 1) : ProcessLine(line)
    \/ Return
    \/ Call

\* the pass, called again and again
SpecCalls == Init /\ [][NextCalls]_vars

\* the three commands, run by concurrent tasks
SpecQueries == Init /\ [][NextQueries]_vars

\* The tokio runtime polls every task that can go on, and tokio's Mutex
\* hands the guard to its waiters in turn: a step of a task that stays
\* possible is taken, and a task waiting for the guard gets it if the guard
\* is free again and again.  Nothing makes a child exit, a command be
\* called or an operation fail.
FairSpecQueries ==
    /\ SpecQueries
    /\ \A q \in QueryIds :
        /\ WF_vars(QueryReadEof(q))
        /\ WF_vars(QueryWait(q))
        /\ WF_vars(QueryEmitDone(q))
        /\ SF_vars(QueryInsert(q))
        /\ SF_vars(QueryCleanup(q))
    /\ \A c \in CancelTasks :
        /\ WF_vars(CancelKill(c))
        /\ SF_vars(CancelAcquire(c))
    /\ SF_vars(ListAcquire)

TypeOK ==
    /\ pc \in {"loop", "done"}
    /\ Len(log) <= MaxLines
    /\ anonymous_tool_counter \in Nat
    /\ global_block_order \in Nat

\* =====================================================================
\* Properties.  The log is read here directly, item by item, without the
\* extractor or the aggregator, and compared with what the pass has built.
\* =====================================================================

\* the line is a user or assistant event that has a message payload
IsEventLine(line) ==
    /\ line.kind = "json"
    /\ Has(line.v, "type") /\ line.v.type \in {"user", "assistant"}
    /\ Has(line.v, "message")

LineType(line) == line.v.type
LineRole(line) ==
    IF Has(line.v.message, "role") THEN line.v.message.role ELSE line.v.type

\* the content items of an event line; a bare string is one text item
LineItems(line) ==
    IF ~IsEventLine(line) \/ ~Has(line.v.message, "content") THEN <<>>
    ELSE IF Has(line.v.message.content, "str")
         THEN <<[type |-> "text", text |-> line.v.message.content.str]>>
    ELSE line.v.message.content.arr

Blank(str) == \A i \in 1..Len(str) : str[i] \in {" ", "\n"}

\* the item is one that produces a Block in an event of the given type
Emits(item, type) ==
    \/ item.type = "text" /\ Has(item, "text") /\ ~Blank(item.text)
    \/ item.type = "image" /\ Has(item, "source") /\ Has(item.source, "data")
    \/ item.type = "tool_use" /\ type = "assistant"

RECURSIVE SelectEmitting(_, _)
SelectEmitting(items, type) ==
    IF items = <<>> THEN <<>>
    ELSE (IF Emits(Head(items), type) THEN <<Head(items)>> ELSE <<>>)
         \o SelectEmitting(Tail(items), type)

\* the block-producing items of one line
LineEmitting(line) ==
    IF IsEventLine(line) THEN SelectEmitting(LineItems(line), LineType(line))
    ELSE <<>>

\* a surviving (non-dropped) event
Survives(line) == LineEmitting(line) # <<>>

\* the block-producing items of the first n lines, in file order
RECURSIVE EmittingUpTo(_, _)
EmittingUpTo(lines, n) ==
    IF n = 0 THEN <<>>
    ELSE EmittingUpTo(lines, n - 1) \o LineEmitting(lines[n])

Unwrap(opt) == IF opt = None THEN <<>> ELSE opt[1]

\* the Blocks of all Messages in (message index, position) order
RECURSIVE BlocksUpTo(_, _)
BlocksUpTo(msgs, n) ==
    IF n = 0 THEN <<>>
    ELSE BlocksUpTo(msgs, n - 1) \o Unwrap(msgs[n].blocks)

AllBlocks == BlocksUpTo(messages, Len(messages))

\* the Block b is the one the item produces
BlockOfItem(b, item) ==
    \/ /\ item.type = "text" /\ b.type = "text" /\ b.content = item.text
    \/ /\ item.type = "image" /\ b.type = "image"
       /\ b.data = item.source.data
       /\ b.mediaType = (IF Has(item.source, "media_type")
                         THEN item.source.media_type ELSE "image/png")
    \/ /\ item.type = "tool_use" /\ b.type = "tool"
       /\ (Has(item, "id") => b.toolId = item.id)

SurvivingCount == Cardinality({j \in 1..Len(log) : Survives(log[j])})

\* C1 -- Order preservation: the Blocks of all Messages, read in (message
\* index, position) order, have strictly increasing order numbers, and the
\* k-th of them is the Block of the k-th block-producing content item of the
\* log, whatever merges have taken place.
C1_OrderPreservation ==
    LET bs == AllBlocks
        items == EmittingUpTo(log, Len(log))
    IN /\ Len(bs) = Len(items)
       /\ \A k \in 1..Len(bs) : BlockOfItem(bs[k], items[k])
       /\ \A k \in 1..(Len(bs) - 1) : bs[k].order < bs[k + 1].order

\* C1 witness: three surviving events were folded into two Messages, one of
\* which holds a Text block after a Tool block.
C1_Witness ==
    /\ SurvivingCount = 3 /\ Len(messages) = 2
    /\ \E i \in 1..Len(messages) :
        \E k \in 1..(Len(Unwrap(messages[i].blocks)) - 1) :
            /\ messages[i].blocks[1][k].type = "tool"
            /\ messages[i].blocks[1][k + 1].type = "text"

\* the roles of the surviving events among the first n lines, in file order
RECURSIVE SurvivingRoles(_, _)
SurvivingRoles(lines, n) ==
    IF n = 0 THEN <<>>
    ELSE SurvivingRoles(lines, n - 1)
         \o (IF Survives(lines[n]) THEN <<LineRole(lines[n])>> ELSE <<>>)

\* a sequence of roles with each run of adjacent equal roles that lie in
\* `merging` replaced by a single occurrence
RECURSIVE Runs(_, _)
Runs(roles, merging) ==
    IF Len(roles) <= 1 THEN roles
    ELSE LET front == Runs(SubSeq(roles, 1, Len(roles) - 1), merging)
             r == roles[Len(roles)]
         IN IF r \in merging /\ roles[Len(roles) - 1] = r THEN front
            ELSE Append(front, r)

MessageRoles == [i \in 1..Len(messages) |-> messages[i].role]

AllRoles == {"user", "assistant", "system"}

\* C2 (as stated) -- Same-role merge: consecutive surviving events of the
\* same role always share one Message, so the Messages are the runs of equal
\* roles and no two adjacent Messages have the same role.
C2_SameRoleAlwaysMerges ==
    /\ MessageRoles = Runs(SurvivingRoles(log, Len(log)), AllRoles)
    /\ \A i \in 1..(Len(messages) - 1) : messages[i].role # messages[i + 1].role

\* C2 (amended) -- consecutive surviving events of the same role share one
\* Message when that role is "user" or "assistant": the Messages are the runs
\* of the surviving events' roles in which only user and assistant runs are
\* merged, and no two adjacent Messages are both "user" or both "assistant".
C2_UserAssistantMerge ==
    /\ MessageRoles = Runs(SurvivingRoles(log, Len(log)), {"user", "assistant"})
    /\ \A i \in 1..(Len(messages) - 1) :
        messages[i].role \in {"user", "assistant"}
            => messages[i].role # messages[i + 1].role

\* C2 witness: two consecutive surviving user events and the assistant event
\* after them have been folded into two Messages.
C2_Witness ==
    /\ SurvivingRoles(log, Len(log)) = <<"user", "user", "assistant">>
    /\ MessageRoles = <<"user", "assistant">>

\* the text an event contributes: its non-blank text items, newline-joined
RECURSIVE SelectTexts(_)
SelectTexts(items) ==
    IF items = <<>> THEN <<>>
    ELSE (IF Head(items).type = "text" THEN <<Head(items).text>> ELSE <<>>)
         \o SelectTexts(Tail(items))

LineText(line) == Join(SelectTexts(LineEmitting(line)))

RECURSIVE SelectToolUses(_)
SelectToolUses(items) ==
    IF items = <<>> THEN <<>>
    ELSE (IF Head(items).type = "tool_use" THEN <<Head(items)>> ELSE <<>>)
         \o SelectToolUses(Tail(items))

\* the tool-invocation items of a line that create a ToolExecution
LineToolUses(line) == SelectToolUses(LineEmitting(line))

\* the line the step from the unprimed to the primed state has consumed
StepTaken == Len(log') = Len(log) + 1
StepLine == log'[Len(log')]

\* the role of the event that produced the k-th block-producing item
RECURSIVE EmittingRoles(_, _)
EmittingRoles(lines, n) ==
    IF n = 0 THEN <<>>
    ELSE EmittingRoles(lines, n - 1)
         \o [k \in 1..Len(LineEmitting(lines[n])) |-> LineRole(lines[n])]

\* every Block and ToolExecution of a Message comes from an event of the
\* Message's role (a ToolExecution's started_at is its event's line number)
C3_Provenance ==
    LET roles == EmittingRoles(log, Len(log)) IN
    \A i \in 1..Len(messages) :
        /\ \A k \in 1..Len(Unwrap(messages[i].blocks)) :
            LET b == messages[i].blocks[1][k] IN
            b.order \in 1..Len(roles) /\ roles[b.order] = messages[i].role
        /\ \A k \in 1..Len(Unwrap(messages[i].tools)) :
            LET t == messages[i].tools[1][k] IN
            t.started_at \in 1..Len(log)
                /\ LineRole(log[t.started_at]) = messages[i].role

\* a surviving event whose role differs from the last Message's (or there is
\* no Message) appends a Message made of that event alone and leaves the
\* role, content, timestamp, blocks and tool count of the others as they were
C3_Step ==
    (/\ StepTaken /\ Survives(StepLine)
     /\ (messages = <<>> \/ messages[Len(messages)].role # LineRole(StepLine)))
    => /\ Len(messages') = Len(messages) + 1
       /\ LET m == messages'[Len(messages')]
              items == LineEmitting(StepLine)
              uses == LineToolUses(StepLine)
          IN /\ m.role = LineRole(StepLine)
             /\ m.timestamp = StepLine.v.timestamp
             /\ m.content = LineText(StepLine)
             /\ Len(Unwrap(m.blocks)) = Len(items)
             /\ \A k \in 1..Len(items) : BlockOfItem(m.blocks[1][k], items[k])
             /\ Len(Unwrap(m.tools)) = Len(uses)
             /\ \A k \in 1..Len(uses) :
                    /\ m.tools[1][k].status = "running"
                    /\ m.tools[1][k].started_at = StepLine.v.timestamp
                    /\ Has(uses[k], "id") => m.tools[1][k].id = uses[k].id
       /\ \A i \in 1..Len(messages) :
            /\ messages'[i].role = messages[i].role
            /\ messages'[i].content = messages[i].content
            /\ messages'[i].timestamp = messages[i].timestamp
            /\ messages'[i].blocks = messages[i].blocks
            /\ Len(Unwrap(messages'[i].tools)) = Len(Unwrap(messages[i].tools))

\* C3 -- Cross-role never merges: a surviving event whose role differs from
\* the last Message's role (or that finds no Message) is appended as a new
\* Message with its own role, text, tools, blocks and timestamp, and every
\* Block and ToolExecution of a Message comes from an event of that role.
C3_CrossRoleNeverMerges == [][C3_Step]_vars /\ []C3_Provenance

\* C3 witness: an assistant event with a tool invocation followed a user
\* Message and was appended as a second Message with its ToolExecution.
C3_Witness ==
    /\ MessageRoles = <<"user", "assistant">>
    /\ SurvivingRoles(log, Len(log)) = <<"user", "assistant">>
    /\ messages[2].tools # None /\ messages[2].content # <<>>

\* the ToolExecutions of all Messages in (message index, slot) order
RECURSIVE ToolsUpTo(_, _)
ToolsUpTo(msgs, n) ==
    IF n = 0 THEN <<>>
    ELSE ToolsUpTo(msgs, n - 1) \o Unwrap(msgs[n].tools)

AllTools == ToolsUpTo(messages, Len(messages))

\* the tool_result items of a user event line
RECURSIVE SelectResults(_)
SelectResults(items) ==
    IF items = <<>> THEN <<>>
    ELSE (IF Head(items).type = "tool_result" THEN <<Head(items)>> ELSE <<>>)
         \o SelectResults(Tail(items))

LineResults(line) ==
    IF IsEventLine(line) /\ LineType(line) = "user"
    THEN SelectResults(LineItems(line)) ELSE <<>>

\* the invocation id appears as a tool-invocation in one of the first n lines
InvokedBefore(id, n) ==
    \E i \in 1..n : \E k \in 1..Len(LineToolUses(log[i])) :
        Has(LineToolUses(log[i])[k], "id") /\ LineToolUses(log[i])[k].id = id

\* C4 -- Correlation completeness: at the end of the pass, for every
\* tool-result whose invocation id appears earlier in the log as a
\* tool-invocation, the ToolExecution of that id is completed or error, and
\* has an output when the result carried content.
C4_CorrelationComplete ==
    pc = "done" =>
        \A j \in 1..Len(log) : \A k \in 1..Len(LineResults(log[j])) :
            LET r == LineResults(log[j])[k] IN
            (Has(r, "tool_use_id") /\ InvokedBefore(r.tool_use_id, j - 1))
            => \E n \in 1..Len(AllTools) :
                /\ AllTools[n].id = r.tool_use_id
                /\ AllTools[n].status \in {"completed", "error"}
                /\ Has(r, "content") => AllTools[n].output # None

\* the result item finds no entry in the Correlation Table
IsOrphan(r) == ~Has(r, "tool_use_id") \/ r.tool_use_id \notin DOMAIN tool_index

\* a step on a user event all of whose tool-results are orphans: every
\* existing ToolExecution is as before, no ToolExecution is created, the
\* order counter advances only by the event's block-producing items, and an
\* event with nothing else changes nothing at all; the pass goes on
C5_Step ==
    (/\ StepTaken /\ LineResults(StepLine) # <<>>
     /\ \A k \in 1..Len(LineResults(StepLine)) : IsOrphan(LineResults(StepLine)[k]))
    => /\ \A i \in 1..Len(messages) : messages'[i].tools = messages[i].tools
       /\ \A i \in (Len(messages) + 1)..Len(messages') : messages'[i].tools = None
       /\ tool_index' = tool_index
       /\ anonymous_tool_counter' = anonymous_tool_counter
       /\ global_block_order' = global_block_order + Len(LineEmitting(StepLine))
       /\ Len(BlocksUpTo(messages', Len(messages')))
            = Len(AllBlocks) + Len(LineEmitting(StepLine))
       /\ (LineEmitting(StepLine) = <<>> => messages' = messages)
       /\ pc' = "loop" /\ result' = None

\* C5 -- Orphan tool-result: a tool-result whose invocation id is not in the
\* Correlation Table creates and mutates no ToolExecution, emits no Block,
\* consumes no order number, adds no Message when the event has no other
\* content, and does not fail the pass.
C5_OrphanResultIgnored == [][C5_Step]_vars

\* C5 witness: after a ToolExecution was created, a user event holding only
\* an orphan tool-result has been consumed.
C5_Witness ==
    /\ Len(log) >= 2 /\ AllTools # <<>>
    /\ LineResults(log[Len(log)]) # <<>>
    /\ LineEmitting(log[Len(log)]) = <<>>
    /\ \A k \in 1..Len(LineResults(log[Len(log)])) :
        IsOrphan(LineResults(log[Len(log)])[k])

\* the tool-invocation items of the first n lines, in file order
RECURSIVE ToolUsesUpTo(_, _)
ToolUsesUpTo(lines, n) ==
    IF n = 0 THEN <<>>
    ELSE ToolUsesUpTo(lines, n - 1) \o LineToolUses(lines[n])

IsToolBlock(b) == b.type = "tool"
ToolBlocks == SelectSeq(AllBlocks, IsToolBlock)

\* how many of the first k invocations lack an explicit id
AnonymousAmong(uses, k) == Cardinality({j \in 1..k : ~Has(uses[j], "id")})

\* C6 -- Synthesized ids: the invocations without an explicit id get the ids
\* tool-1, tool-2, ... in encounter order, and the counter equals the number
\* of ids synthesized so far (explicit ids, dropped events and merges do not
\* advance it).
C6_SynthesizedIds ==
    LET uses == ToolUsesUpTo(log, Len(log)) IN
    /\ Len(ToolBlocks) = Len(uses)
    /\ \A k \in 1..Len(uses) :
        ~Has(uses[k], "id")
            => ToolBlocks[k].toolId = "tool-" \o ToString(AnonymousAmong(uses, k))
    /\ anonymous_tool_counter = AnonymousAmong(uses, Len(uses))

\* C6 witness: two ids were synthesized, with an explicit-id invocation and a
\* dropped event in the same log.
C6_Witness ==
    /\ anonymous_tool_counter = 2
    /\ \E k \in 1..Len(ToolBlocks) : ToolBlocks[k].toolId = "tool-2"
    /\ \E k \in 1..Len(ToolBlocks) : ToolBlocks[k].toolId = "xyz"

\* C7 -- No empty output messages: no Message has empty content, no
\* ToolExecutions and no Blocks at the same time.
C7_NoEmptyMessage ==
    \A i \in 1..Len(messages) :
        ~(/\ messages[i].content = <<>>
          /\ Unwrap(messages[i].tools) = <<>>
          /\ Unwrap(messages[i].blocks) = <<>>)

\* C7 witness: an event that yields nothing was consumed after a Message
\* had been built, and an event was merged into that Message.
C7_Witness ==
    /\ Len(messages) = 1 /\ SurvivingCount = 2
    /\ \E j \in 1..Len(log) : IsEventLine(log[j]) /\ ~Survives(log[j])

\* C8 -- ToolExecution lifecycle is one-shot: once the status of a
\* ToolExecution is completed or error, no later line (a second tool-result
\* for the same invocation id included) changes its status, output or
\* completion timestamp.
C8_OneShot ==
    [][\A i \in 1..Len(messages) : \A k \in 1..Len(Unwrap(messages[i].tools)) :
        LET t == messages[i].tools[1][k] IN
        t.status # "running"
            => /\ messages'[i].tools[1][k].status = t.status
               /\ messages'[i].tools[1][k].output = t.output
               /\ messages'[i].tools[1][k].completed_at = t.completed_at]_vars

\* the output a tool-result's content stands for
ExpectedOutput(r) ==
    IF ~Has(r, "content") THEN None
    ELSE IF Has(r.content, "str") THEN Some(r.content.str)
    ELSE IF \E n \in 1..Len(r.content.arr) : r.content.arr[n].type = "text"
         THEN Some(Join(SelectTexts(r.content.arr)))
    ELSE Some(ToStringPretty(r.content.arr))

\* the registered tool-results of the line of this step
RegisteredResults ==
    {k \in 1..Len(LineResults(StepLine)) : ~IsOrphan(LineResults(StepLine)[k])}

\* a step on a user event with registered tool-results: each referenced
\* ToolExecution takes status, output and completion timestamp from the
\* result and keeps its other fields; every other ToolExecution is as before
C9_Step ==
    (StepTaken /\ RegisteredResults # {})
    => /\ \A k \in RegisteredResults :
            LET r == LineResults(StepLine)[k]
                i == tool_index[r.tool_use_id][1] + 1
                n == tool_index[r.tool_use_id][2] + 1
                old == messages[i].tools[1][n]
                new == messages'[i].tools[1][n]
            IN /\ new.status = (IF Has(r, "is_error") /\ r.is_error = TRUE
                                THEN "error" ELSE "completed")
               /\ new.output = ExpectedOutput(r)
               /\ new.completed_at = Some(StepLine.v.timestamp)
               /\ new.id = r.tool_use_id
               /\ new = [old EXCEPT !.status = new.status, !.output = new.output,
                                    !.completed_at = new.completed_at]
       /\ \A i \in 1..Len(messages) : \A n \in 1..Len(Unwrap(messages[i].tools)) :
            (\A k \in RegisteredResults :
                tool_index[LineResults(StepLine)[k].tool_use_id] # <<i - 1, n - 1>>)
            => messages'[i].tools[1][n] = messages[i].tools[1][n]

\* C9 -- Result attachment: a tool-result of a user event whose invocation id
\* is registered gives the referenced ToolExecution, in whichever earlier
\* Message it lives, status error if the error flag is true and completed
\* otherwise, the output of the result's content and the event's timestamp
\* as completion timestamp; no other ToolExecution changes.
C9_ResultAttachment == [][C9_Step]_vars

\* C9 witness: a result with the error flag set reached a ToolExecution of
\* the first Message after another Message was opened, while some other
\* ToolExecution is still running.
C9_Witness ==
    /\ Len(messages) >= 2
    /\ Len(Unwrap(messages[1].tools)) >= 1
    /\ \E n \in 1..Len(Unwrap(messages[1].tools)) :
        /\ messages[1].tools[1][n].status = "error"
        /\ messages[1].tools[1][n].completed_at = Some(Len(log))
    /\ \E n \in 1..Len(AllTools) : AllTools[n].status = "running"

\* a step that merges a surviving event into the open Message
MergeStep ==
    /\ StepTaken /\ Survives(StepLine)
    /\ messages # <<>> /\ Len(messages') = Len(messages)

\* C10 -- Text merge: a merged event's text is appended to the Message's
\* content, after exactly one newline if and only if the content was not
\* empty; an event without text leaves the content as it was.
C10_TextMerge ==
    [][MergeStep =>
        LET old == messages[Len(messages)].content
            new == messages'[Len(messages)].content
            text == LineText(StepLine)
        IN new = (IF text = <<>> THEN old
                  ELSE IF old = <<>> THEN text
                  ELSE old \o <<"\n">> \o text)]_vars

\* C10 witness: text was merged into a Message whose content was empty, and
\* then text was merged into it again.
C10_Witness ==
    /\ Len(log) = 3 /\ Len(messages) = 1
    /\ \A j \in 1..3 : Survives(log[j])
    /\ LineText(log[1]) = <<>>
    /\ messages[1].content = LineText(log[2]) \o <<"\n">> \o LineText(log[3])
    /\ LineText(log[2]) # <<>> /\ LineText(log[3]) # <<>>

\* C11 -- The pass never fails: whatever well-formed events, malformed
\* lines, unknown kinds, orphan results and empty events the log holds, each
\* step of the loop consumes exactly one line, no error return is taken, the
\* return is open after every line, and it yields the Message list as a
\* success value.
C11_PassNeverFails ==
    /\ [](result # Some("Err"))
    /\ [](pc = "done" => result = Some("Ok"))
    /\ [][pc = "loop" /\ pc' = "loop" => Len(log') = Len(log) + 1]_vars
    /\ [](pc = "loop" => ENABLED Return)

\* C11 witness: the pass returned after a malformed line, an orphan result
\* and a merge.
C11_Witness ==
    /\ pc = "done" /\ result = Some("Ok") /\ Len(log) = MaxLines
    /\ \E j \in 1..Len(log) : log[j].kind = "invalid"
    /\ \E j \in 1..Len(log) : ~Survives(log[j]) /\ LineResults(log[j]) # <<>>
    /\ messages # <<>>

\* C12 -- Skipped lines have no effect: a line that is empty, is not valid
\* structured data, has a missing or unrecognized event kind, or lacks a
\* message payload leaves the Message list, the Correlation Table, the
\* synthesized-id counter and the Global Order Counter unchanged and the pass
\* in its loop, so the following lines meet the state they would have met
\* without it.
C12_SkippedLineNoEffect ==
    [][(StepTaken /\ ~IsEventLine(StepLine))
        => /\ UNCHANGED <<messages, tool_index, anonymous_tool_counter,
                          global_block_order>>
           /\ pc' = "loop" /\ result' = None]_vars

\* C12 witness: a line without a message payload was consumed after the pass
\* had built a Message and a table entry and advanced both counters.
C12_Witness ==
    /\ Len(log) >= 2 /\ ~IsEventLine(log[Len(log)])
    /\ log[Len(log)].kind = "json" /\ ~Has(log[Len(log)].v, "message")
    /\ messages # <<>> /\ DOMAIN tool_index # {}
    /\ anonymous_tool_counter > 0 /\ global_block_order > 0

\* C13 -- Global order numbers: with K Blocks emitted so far, the counter is
\* K and the Blocks carry the numbers 1..K, each once, across all Messages;
\* K is the number of block-producing items of the log, so blank text,
\* tool-results, unknown tags and the items of dropped events consume none;
\* a Block keeps the number it was given.
C13_GlobalOrder ==
    /\ [](/\ global_block_order = Len(AllBlocks)
          /\ global_block_order = Len(EmittingUpTo(log, Len(log)))
          /\ {AllBlocks[k].order : k \in 1..Len(AllBlocks)} = 1..Len(AllBlocks)
          /\ \A k, l \in 1..Len(AllBlocks) :
                AllBlocks[k].order = AllBlocks[l].order => k = l)
    /\ [][\A i \in 1..Len(messages) : \A k \in 1..Len(Unwrap(messages[i].blocks)) :
            messages'[i].blocks[1][k].order = messages[i].blocks[1][k].order]_vars

\* C13 witness: three Blocks numbered 1..3 lie in two Messages, the third
\* stamped after a line that produced no Block.
C13_Witness ==
    /\ global_block_order = 3 /\ Len(messages) = 2 /\ Len(log) = 3
    /\ LineEmitting(log[2]) = <<>> /\ LineItems(log[2]) # <<>>
    /\ Unwrap(messages[2].blocks) # <<>>
    /\ messages[2].blocks[1][Len(messages[2].blocks[1])].order = 3

\* C14 -- Block lists are append-only and ordered: the order numbers inside
\* each Message's block list are strictly increasing, and a step changes a
\* block list only by appending at its end.
C14_BlocksAppendOnly ==
    /\ [](\A i \in 1..Len(messages) :
            \A k \in 1..(Len(Unwrap(messages[i].blocks)) - 1) :
                messages[i].blocks[1][k].order < messages[i].blocks[1][k + 1].order)
    /\ [][\A i \in 1..Len(messages) :
            LET old == Unwrap(messages[i].blocks)
                new == Unwrap(messages'[i].blocks)
            IN Len(old) <= Len(new) /\ SubSeq(new, 1, Len(old)) = old]_vars

\* C14 witness: a Message's block list grew by two merges.
C14_Witness ==
    /\ Len(messages) = 1 /\ SurvivingCount = 3
    /\ Len(Unwrap(messages[1].blocks)) >= 4

\* the pass state a call reaches on the first n lines when it starts from
\* the values of the `let mut` statements
RECURSIVE Refold(_, _)
Refold(lines, n) ==
    IF n = 0 THEN PassState(<<>>, <<>>, 0, 0)
    ELSE Iterate(Refold(lines, n - 1), lines[n])

\* C15 -- Fresh state per call: a call made after an earlier call starts
\* from an empty Message list, an empty Correlation Table and both counters
\* at zero, and returns the state that the lines of this call alone
\* determine, so two passes over the same input build the same output; the
\* order numbers start again at 1, the synthesized-id counter counts this
\* call's anonymous invocations only, and the Correlation Table holds only
\* ids invoked in this call.
C15_FreshStatePerCall ==
    /\ Len(log) = 0 =>
        /\ messages = <<>> /\ tool_index = <<>>
        /\ anonymous_tool_counter = 0 /\ global_block_order = 0
    /\ (calls > 1 /\ pc = "done") =>
        LET f == Refold(log, Len(log))
        IN /\ messages = f.messages
           /\ tool_index = f.tool_index
           /\ anonymous_tool_counter = f.anonymous_tool_counter
           /\ global_block_order = f.global_block_order
    /\ messages # <<>> => messages[1].blocks[1][1].order = 1
    /\ LET uses == ToolUsesUpTo(log, Len(log))
       IN /\ anonymous_tool_counter = AnonymousAmong(uses, Len(uses))
          /\ \A id \in DOMAIN tool_index :
                \E k \in 1..Len(uses) : Has(uses[k], "id") /\ uses[k].id = id

\* C15 witness: a second call has consumed a tool-result that finds no entry
\* and has synthesized an id and stamped a Block of its own.
C15_Witness ==
    /\ calls = 2 /\ anonymous_tool_counter = 1 /\ global_block_order = 1
    /\ \E j \in 1..Len(log) :
        /\ LineResults(log[j]) # <<>>
        /\ \A k \in 1..Len(LineResults(log[j])) :
            LineResults(log[j])[k].tool_use_id \notin DOMAIN tool_index

\* C16 -- Merge appends tools for either role: when a surviving event that
\* carries new ToolExecutions is merged into the open Message, its
\* ToolExecutions are appended to that Message's tool list in extraction
\* order, and each one with an explicit invocation id is registered at
\* (index of that Message, prior length of the tool list + its slot).
C16_MergeAppendsTools ==
    [][(MergeStep /\ LineToolUses(StepLine) # <<>>)
        => LET uses == LineToolUses(StepLine)
               old == Unwrap(messages[Len(messages)].tools)
               new == Unwrap(messages'[Len(messages)].tools)
           IN /\ Len(new) = Len(old) + Len(uses)
              /\ \A k \in 1..Len(old) : new[k].id = old[k].id
              /\ \A k \in 1..Len(uses) :
                    Has(uses[k], "id")
                    => /\ new[Len(old) + k].id = uses[k].id
                       /\ uses[k].id \in DOMAIN tool_index'
                       /\ \/ tool_index'[uses[k].id]
                                = <<Len(messages) - 1, Len(old) + k - 1>>
                          \/ \E l \in (k + 1)..Len(uses) :
                                Has(uses[l], "id") /\ uses[l].id = uses[k].id]_vars

\* C17 -- Correlation Table validity: every entry id -> (message index, slot
\* index) names an existing Message and an existing slot of its tool list,
\* the ToolExecution in that slot is one created for invocation id `id`, and
\* an id once registered stays in the table for the rest of the pass.
C17_TableValid ==
    /\ [](\A id \in DOMAIN tool_index :
            LET i == tool_index[id][1] + 1
                n == tool_index[id][2] + 1
            IN /\ i \in 1..Len(messages)
               /\ n \in 1..Len(Unwrap(messages[i].tools))
               /\ messages[i].tools[1][n].id = id
               /\ messages[i].tools[1][n].tool_use_id = Some(id))
    /\ [][StepTaken => DOMAIN tool_index \subseteq DOMAIN tool_index']_vars

\* C17 witness: an entry names slot 2 (counted from 0) of a tool list that
\* grew by a merge, and another names slot 0 of the first Message.
C17_Witness ==
    /\ \E id \in DOMAIN tool_index : tool_index[id][2] = 2
    /\ \E id \in DOMAIN tool_index : tool_index[id][1] = 0 /\ tool_index[id][2] = 0

\* what the extractor returns for the line of this step
StepExtract ==
    ExtractContent(NewLocals(messages, anonymous_tool_counter, global_block_order),
                   tool_index, StepLine.v.message, StepLine.v.type,
                   StepLine.v.timestamp)

\* the explicit-id invocations among the first k, as (id, slot) pairs
RECURSIVE ExplicitPairs(_, _)
ExplicitPairs(uses, k) ==
    IF k = 0 THEN <<>>
    ELSE ExplicitPairs(uses, k - 1)
         \o (IF Has(uses[k], "id") THEN <<<<uses[k].id, k - 1>>>> ELSE <<>>)

\* C18 -- Tool-invocation extraction: each tool-invocation item of an
\* assistant event creates exactly one ToolExecution with status running, no
\* output, no completion timestamp and the event's timestamp as start,
\* emits exactly one Tool block whose toolId is that ToolExecution's id, and
\* is recorded for registration if and only if it carried an explicit id.
C18_ToolUseExtraction ==
    [][(StepTaken /\ IsEventLine(StepLine) /\ LineType(StepLine) = "assistant")
        => LET st == StepExtract
               uses == SelectToolUses(LineItems(StepLine))
               toolBlocks == SelectSeq(st.blocks, IsToolBlock)
           IN /\ Len(st.tools) = Len(uses)
              /\ Len(toolBlocks) = Len(uses)
              /\ \A k \in 1..Len(uses) :
                    /\ st.tools[k].status = "running"
                    /\ st.tools[k].output = None
                    /\ st.tools[k].completed_at = None
                    /\ st.tools[k].started_at = StepLine.v.timestamp
                    /\ st.tools[k].tool = uses[k].name
                    /\ toolBlocks[k].toolId = st.tools[k].id
                    /\ Has(uses[k], "id") => st.tools[k].id = uses[k].id
                    /\ st.tools[k].tool_use_id
                        = (IF Has(uses[k], "id") THEN Some(uses[k].id) ELSE None)
              /\ st.tool_id_mappings = ExplicitPairs(uses, Len(uses))]_vars

\* C18 witness: an assistant event with an anonymous and an explicit-id
\* invocation was extracted; the ToolExecution of the explicit one sits in
\* the slot after the anonymous one and is registered.
C18_Witness ==
    /\ Len(log) >= 1 /\ IsEventLine(log[Len(log)])
    /\ Len(LineToolUses(log[Len(log)])) = 2
    /\ \E i \in 1..Len(messages) :
        /\ Len(Unwrap(messages[i].tools)) >= 2
        /\ messages[i].tools[1][Len(messages[i].tools[1])].id = "xyz"
        /\ messages[i].tools[1][Len(messages[i].tools[1]) - 1].tool_use_id = None
    /\ "xyz" \in DOMAIN tool_index

\* the tool-invocation items of a user event, which the extractor passes over
GatedUses(line) ==
    IF IsEventLine(line) /\ LineType(line) = "user"
    THEN SelectToolUses(LineItems(line)) ELSE <<>>

\* the tool-result items of an assistant event, which the extractor passes over
GatedResults(line) ==
    IF IsEventLine(line) /\ LineType(line) = "assistant"
    THEN SelectResults(LineItems(line)) ELSE <<>>

\* C19 -- Role gating of tool items: a tool-invocation item inside a user
\* event creates no ToolExecution, no Block and no Correlation Table entry,
\* and a tool-result item inside an assistant event mutates no ToolExecution;
\* both consume no order number, and the remaining items of the event are
\* extracted as if the gated item were not there.
C19_RoleGating ==
    [][(StepTaken /\ (GatedUses(StepLine) # <<>> \/ GatedResults(StepLine) # <<>>))
        => LET st == StepExtract
               rest == LineEmitting(StepLine)
           IN /\ GatedUses(StepLine) # <<>>
                 => /\ st.tools = <<>>
                    /\ st.tool_id_mappings = <<>>
                    /\ SelectSeq(st.blocks, IsToolBlock) = <<>>
                    /\ tool_index' = tool_index
                    /\ anonymous_tool_counter' = anonymous_tool_counter
                    /\ \A i \in 1..Len(messages) :
                          messages'[i].tools = messages[i].tools
                    /\ \A i \in (Len(messages) + 1)..Len(messages') :
                          messages'[i].tools = None
              /\ GatedResults(StepLine) # <<>>
                 => /\ st.messages = messages
                    /\ \A i \in 1..Len(messages) :
                          \A n \in 1..Len(Unwrap(messages[i].tools)) :
                             messages'[i].tools[1][n] = messages[i].tools[1][n]
              /\ global_block_order' = global_block_order + Len(rest)
              /\ Len(st.blocks) = Len(rest)
              /\ \A k \in 1..Len(rest) :
                    /\ BlockOfItem(st.blocks[k], rest[k])
                    /\ st.blocks[k].order = global_block_order + k
              /\ st.content_texts = SelectTexts(rest)]_vars

\* C19 witness: after an assistant event invoked abc, a user event carried a
\* tool-invocation of abc followed by a text and an assistant event carried
\* a tool-result of abc followed by a text; both texts became Messages, the
\* user Message has no tools and abc is still running.
C19_Witness ==
    /\ Len(log) = 3
    /\ LineToolUses(log[1]) # <<>>
    /\ GatedUses(log[2]) # <<>>
    /\ GatedResults(log[3]) # <<>>
    /\ Len(messages) = 3
    /\ messages[1].tools # None
    /\ messages[1].tools[1][1].id = "abc"
    /\ messages[1].tools[1][1].status = "running"
    /\ messages[2].tools = None /\ messages[2].content = TextA
    /\ messages[3].tools = None /\ messages[3].content = TextA
    /\ global_block_order = 3

\* a user event whose items are all tool-results
ResultOnly(line) ==
    /\ IsEventLine(line) /\ LineType(line) = "user"
    /\ LineItems(line) # <<>>
    /\ \A k \in 1..Len(LineItems(line)) : LineItems(line)[k].type = "tool_result"

\* a step on a result-only event leaves the list of Messages as it was but
\* for the status, output and completion of the ToolExecutions
C20_Step ==
    (StepTaken /\ ResultOnly(StepLine))
    => /\ Len(messages') = Len(messages)
       /\ \A i \in 1..Len(messages) :
            /\ messages'[i].role = messages[i].role
            /\ messages'[i].content = messages[i].content
            /\ messages'[i].timestamp = messages[i].timestamp
            /\ messages'[i].blocks = messages[i].blocks
            /\ Len(Unwrap(messages'[i].tools)) = Len(Unwrap(messages[i].tools))
            /\ \A n \in 1..Len(Unwrap(messages[i].tools)) :
                  /\ messages'[i].tools[1][n].id = messages[i].tools[1][n].id
                  /\ messages'[i].tools[1][n].started_at
                        = messages[i].tools[1][n].started_at
       /\ global_block_order' = global_block_order
       /\ tool_index' = tool_index
       /\ anonymous_tool_counter' = anonymous_tool_counter

\* a step on a surviving assistant event that comes right after a
\* result-only event, itself right after a surviving assistant event
C20_Bridge ==
    (/\ StepTaken /\ Len(log) >= 2
     /\ Survives(StepLine) /\ LineRole(StepLine) = "assistant"
     /\ ResultOnly(log[Len(log)])
     /\ Survives(log[Len(log) - 1]) /\ LineRole(log[Len(log) - 1]) = "assistant")
    => /\ Len(messages') = Len(messages)
       /\ messages'[Len(messages)].timestamp = StepLine.v.timestamp
       /\ Len(Unwrap(messages'[Len(messages)].blocks))
            = Len(Unwrap(messages[Len(messages)].blocks)) + Len(LineEmitting(StepLine))

\* C20 -- A result-only event is transparent to merging: a user event whose
\* items are all tool-results is dropped after its results are applied; it
\* adds no Message, emits no Block, updates no Message's timestamp and does
\* not close the open Message, so that the assistant events right before and
\* right after it are merged into the same Message.
C20_ResultOnlyTransparent == [][C20_Step /\ C20_Bridge]_vars

\* C20 witness: an assistant event invoked abc, a result-only user event
\* completed it, and the next assistant event was merged into the same
\* Message, whose timestamp is that of the third line.
C20_Witness ==
    /\ Len(log) = 3
    /\ ResultOnly(log[2])
    /\ Len(messages) = 1
    /\ messages[1].role = "assistant"
    /\ messages[1].tools # None /\ messages[1].blocks # None
    /\ messages[1].tools[1][1].id = "abc"
    /\ messages[1].tools[1][1].status = "completed"
    /\ messages[1].tools[1][1].completed_at = Some(2)
    /\ messages[1].timestamp = 3
    /\ Len(messages[1].blocks[1]) >= 2

IsImageBlock(b) == b.type = "image"

\* the items tagged image among the items
RECURSIVE SelectImages(_)
SelectImages(items) ==
    IF items = <<>> THEN <<>>
    ELSE (IF Head(items).type = "image" THEN <<Head(items)>> ELSE <<>>)
         \o SelectImages(Tail(items))

\* the original wording of C21: every item tagged image, whatever it
\* carries, emits exactly one Image block
C21_EveryImageItemEmits ==
    [][(StepTaken /\ IsEventLine(StepLine))
        => Len(SelectSeq(StepExtract.blocks, IsImageBlock))
            = Len(SelectImages(LineItems(StepLine)))]_vars

\* C21 -- Image extraction: every image content item that carries source
\* data emits exactly one Image block (media type as given, or image/png
\* when absent, together with the raw data) and an image item without
\* source data emits nothing; an image never adds to the content text, and
\* an event that contains only images still yields a Message, with empty
\* content and a non-empty block list when it opens a new one.
C21_ImageExtraction ==
    [][(StepTaken /\ IsEventLine(StepLine))
        => LET st == StepExtract
               images == SelectImages(LineEmitting(StepLine))
               imageBlocks == SelectSeq(st.blocks, IsImageBlock)
           IN /\ Len(imageBlocks) = Len(images)
              /\ \A k \in 1..Len(images) :
                    /\ imageBlocks[k].data = images[k].source.data
                    /\ imageBlocks[k].mediaType
                        = (IF Has(images[k].source, "media_type")
                           THEN images[k].source.media_type ELSE "image/png")
              /\ st.content_texts = SelectTexts(LineEmitting(StepLine))
              /\ (images # <<>> /\ Len(images) = Len(LineEmitting(StepLine)))
                 => /\ messages' # <<>>
                    /\ Len(Unwrap(messages'[Len(messages')].blocks)) >= Len(images)
                    /\ IsImageBlock(messages'[Len(messages')].blocks[1]
                                        [Len(messages'[Len(messages')].blocks[1])])
                    /\ IF Len(messages') = Len(messages) + 1
                       THEN messages'[Len(messages')].content = <<>>
                       ELSE messages'[Len(messages')].content
                                = messages[Len(messages)].content]_vars

\* C21 witness: an image without a media type opened a user Message with
\* empty content, an image item without data was passed over, and an image
\* with a media type opened an assistant Message.
C21_Witness ==
    /\ Len(log) = 3 /\ Len(messages) = 2
    /\ \E j \in 1..3 : /\ SelectImages(LineItems(log[j])) # <<>>
                       /\ SelectImages(LineEmitting(log[j])) = <<>>
    /\ messages[1].content = <<>> /\ messages[1].blocks # None
    /\ messages[1].blocks[1][1].type = "image"
    /\ messages[1].blocks[1][1].mediaType = "image/png"
    /\ messages[2].content = <<>> /\ messages[2].blocks # None
    /\ messages[2].blocks[1][1].type = "image"
    /\ messages[2].blocks[1][1].mediaType = "image/jpeg"

\* C22 -- Tool blocks and tool list agree: for every output Message, the
\* toolIds of its Tool blocks, read in block order, are exactly the ids of
\* the ToolExecutions of its tool list, read in slot order.
C22_ToolBlocksMatchTools ==
    \A i \in 1..Len(messages) :
        LET toolBlocks == SelectSeq(Unwrap(messages[i].blocks), IsToolBlock)
            tools == Unwrap(messages[i].tools)
        IN /\ Len(toolBlocks) = Len(tools)
           /\ \A k \in 1..Len(tools) : toolBlocks[k].toolId = tools[k].id

IsTextBlock(b) == b.type = "text"

\* the contents of the Text blocks of a block list, in block order
TextsOfBlocks(blocks) ==
    LET textBlocks == SelectSeq(blocks, IsTextBlock)
    IN [k \in 1..Len(textBlocks) |-> textBlocks[k].content]

\* C23 -- Content equals its Text blocks: for every output Message, the
\* content string equals the contents of the Message's Text blocks, in block
\* order, joined by single newlines (empty when it has no Text block).
C23_ContentIsTextBlocks ==
    \A i \in 1..Len(messages) :
        messages[i].content = Join(TextsOfBlocks(Unwrap(messages[i].blocks)))

\* C23 witness: a Message built by a merge holds three Text blocks with a
\* Tool block among them, and a Message holds a text that keeps its padding.
C23_Witness ==
    /\ \E i \in 1..Len(messages) :
        /\ Len(TextsOfBlocks(Unwrap(messages[i].blocks))) = 3
        /\ \E k \in 1..Len(Unwrap(messages[i].blocks)) :
              IsToolBlock(messages[i].blocks[1][k])
        /\ messages[i].timestamp > 1
    /\ \E i \in 1..Len(messages) :
        /\ Len(messages[i].content) >= 2
        /\ messages[i].content[Len(messages[i].content) - 1] = " "

\* C24 -- ToolExecution state consistency: every ToolExecution has status
\* running, completed or error; its status is running if and only if its
\* completion timestamp is absent; a running ToolExecution has no output;
\* and a status never changes from completed or error back to running.
C24_ToolStateConsistent ==
    /\ [](\A i \in 1..Len(messages) : \A n \in 1..Len(Unwrap(messages[i].tools)) :
            LET t == messages[i].tools[1][n] IN
            /\ t.status \in {"running", "completed", "error"}
            /\ (t.status = "running") <=> (t.completed_at = None)
            /\ t.status = "running" => t.output = None)
    /\ [][\A i \in 1..Len(messages) : \A n \in 1..Len(Unwrap(messages[i].tools)) :
            (StepTaken /\ messages[i].tools[1][n].status # "running")
            => /\ i <= Len(messages')
               /\ n <= Len(Unwrap(messages'[i].tools))
               /\ messages'[i].tools[1][n].status # "running"]_vars

\* C24 witness: one ToolExecution ended in error without an output, another
\* is still running, and a line was consumed after the first had ended.
C24_Witness ==
    /\ \E i \in 1..Len(messages) : \E n \in 1..Len(Unwrap(messages[i].tools)) :
        /\ messages[i].tools[1][n].status = "error"
        /\ messages[i].tools[1][n].output = None
        /\ messages[i].tools[1][n].completed_at # None
        /\ messages[i].tools[1][n].completed_at[1] < Len(log)
    /\ \E i \in 1..Len(messages) : \E n \in 1..Len(Unwrap(messages[i].tools)) :
        messages[i].tools[1][n].status = "running"

\* the line of this step carries, as a user event, a tool-result for the id
StepHasResultFor(id) ==
    \E k \in 1..Len(LineResults(StepLine)) :
        /\ Has(LineResults(StepLine)[k], "tool_use_id")
        /\ LineResults(StepLine)[k].tool_use_id = id

\* Message i is the same before and after the step, but for status, output
\* and completion timestamp of ToolExecutions the line has a result for
FrozenInStep(i) ==
    /\ messages'[i].role = messages[i].role
    /\ messages'[i].content = messages[i].content
    /\ messages'[i].timestamp = messages[i].timestamp
    /\ messages'[i].blocks = messages[i].blocks
    /\ (messages'[i].tools = None) <=> (messages[i].tools = None)
    /\ Len(Unwrap(messages'[i].tools)) = Len(Unwrap(messages[i].tools))
    /\ \A n \in 1..Len(Unwrap(messages[i].tools)) :
        LET old == messages[i].tools[1][n]
            new == messages'[i].tools[1][n]
        IN /\ new.id = old.id
           /\ new.tool = old.tool
           /\ new.input = old.input
           /\ new.started_at = old.started_at
           /\ new.tool_use_id = old.tool_use_id
           /\ new # old => StepHasResultFor(old.id)

\* C25 -- Closed messages are frozen: a step of the pass leaves every
\* Message that is not the last one after the step with its role, content,
\* timestamp, block list and the length and identity of its ToolExecutions;
\* the only change is a matching tool-result setting status, output and
\* completion timestamp of a ToolExecution.  The list only grows at its end,
\* by at most one Message per line.
C25_ClosedFrozen ==
    [][StepTaken
        => /\ Len(messages') \in {Len(messages), Len(messages) + 1}
           /\ \A i \in 1..Len(messages) : i < Len(messages') => FrozenInStep(i)
           /\ \A i \in 1..Len(messages) : messages'[i].role = messages[i].role]_vars

\* C25 witness: the third line, a user event, completed a ToolExecution of
\* the first Message after that Message had been closed by a second one,
\* and was merged into the second Message.
C25_Witness ==
    /\ Len(log) = 3 /\ Len(messages) = 2
    /\ messages[1].tools # None
    /\ messages[1].timestamp = 1
    /\ messages[1].tools[1][1].completed_at = Some(3)
    /\ messages[2].timestamp = 3

\* position (message index, slot), both counted from 0, comes before or at
PosLeq(p, q) == p[1] < q[1] \/ (p[1] = q[1] /\ p[2] <= q[2])

\* C26 -- Duplicate invocation ids: when several ToolExecutions carry the
\* same explicit invocation id, the Correlation Table entry for that id
\* names the last of them in (message, slot) order, which is the most
\* recently registered one; a step changes no ToolExecution other than the
\* one the table names for its id, so a tool-result for that id leaves every
\* earlier ToolExecution with that id as it was (running stays running).
C26_DuplicateIds ==
    /\ [](\A i \in 1..Len(messages) : \A n \in 1..Len(Unwrap(messages[i].tools)) :
            LET t == messages[i].tools[1][n] IN
            t.tool_use_id # None
            => /\ t.id \in DOMAIN tool_index
               /\ PosLeq(<<i - 1, n - 1>>, tool_index[t.id])
               /\ messages[tool_index[t.id][1] + 1].tools[1]
                        [tool_index[t.id][2] + 1].id = t.id)
    /\ [][\A i \in 1..Len(messages) : \A n \in 1..Len(Unwrap(messages[i].tools)) :
            LET t == messages[i].tools[1][n] IN
            (StepTaken /\ t.tool_use_id # None /\ tool_index[t.id] # <<i - 1, n - 1>>)
            => messages'[i].tools[1][n] = t]_vars

\* C26 witness: two ToolExecutions carry the id abc; the table names the
\* second, a tool-result for abc has completed it, and the first is still
\* running.
C26_Witness ==
    /\ Len(log) = 3 /\ Len(LineResults(log[3])) = 1
    /\ "abc" \in DOMAIN tool_index
    /\ \E i, j \in 1..Len(messages) :
        \E n \in 1..Len(Unwrap(messages[i].tools)) :
        \E m \in 1..Len(Unwrap(messages[j].tools)) :
            /\ <<i, n>> # <<j, m>>
            /\ messages[i].tools[1][n].id = "abc"
            /\ messages[j].tools[1][m].id = "abc"
            /\ messages[i].tools[1][n].status = "running"
            /\ messages[j].tools[1][m].status = "completed"
            /\ tool_index["abc"] = <<j - 1, m - 1>>

\* C27 -- Anonymous tools never complete: a ToolExecution created from a
\* tool-invocation without an explicit invocation id has an id tool-<n>, is
\* named by no Correlation Table entry, and has status running, no output
\* and no completion timestamp in every state of the pass, the final one
\* included, whatever lines follow (a tool-result for tool-<n> included).
C27_AnonymousNeverCompletes ==
    \A i \in 1..Len(messages) : \A n \in 1..Len(Unwrap(messages[i].tools)) :
        LET t == messages[i].tools[1][n] IN
        t.tool_use_id = None
        => /\ \E k \in 1..anonymous_tool_counter : t.id = AnonymousId(k)
           /\ t.id \notin DOMAIN tool_index
           /\ \A id \in DOMAIN tool_index : tool_index[id] # <<i - 1, n - 1>>
           /\ t.status = "running"
           /\ t.output = None
           /\ t.completed_at = None

\* C27 witness: the pass has returned; an anonymous ToolExecution tool-1 was
\* created, a later user event carried a tool-result for tool-1, and the
\* ToolExecution is still running.
C27_Witness ==
    /\ pc = "done" /\ Len(log) = 3
    /\ Len(messages) >= 1 /\ messages[1].tools # None
    /\ messages[1].tools[1][1].id = "tool-1"
    /\ messages[1].tools[1][1].status = "running"
    /\ \E j \in 2..3 : \E k \in 1..Len(LineResults(log[j])) :
          LineResults(log[j])[k].tool_use_id = "tool-1"

\* C28 -- Cancellation and completion are mutually exclusive: for every
\* query id, in every interleaving of query_claude with the cancel_query
\* tasks, a cancel_query that returned true and the claude-done event
\* exclude each other, cancel_query returns true at most once per id and
\* never for an unknown id, and a call that returns false changes nothing.
C28_CancelXorDone ==
    /\ [](/\ \A q \in QueryIds :
                /\ cancel_true[q] <= 1
                /\ ~(cancel_true[q] >= 1 /\ q \in done_emitted)
                /\ \A c \in CancelTasks :
                      (cancel_pc[c] = "kill" /\ cancel_arg[c] = q)
                      => (cancel_true[q] = 0 /\ q \notin done_emitted)
          /\ cancel_true["unknown"] = 0)
    /\ [][\A c \in CancelTasks :
            (cancel_pc[c] = "lock" /\ cancel_pc'[c] = "idle")
            => UNCHANGED <<active_queries, lock, query_pc, query_result, child,
                           done_emitted, cancel_true>>]_vars

\* C28 witness: the first query ran to its claude-done event; the second
\* was cancelled, once, and returned Ok without the event; a further
\* cancel_query for the second is waiting for the guard.
C28_Witness ==
    /\ QueryId(1) \in done_emitted /\ cancel_true[QueryId(1)] = 0
    /\ cancel_true[QueryId(2)] = 1 /\ QueryId(2) \notin done_emitted
    /\ query_result[QueryId(2)] = "Ok"
    /\ \E c \in CancelTasks : cancel_pc[c] = "lock" /\ cancel_arg[c] = QueryId(2)

\* C29 -- No leaked registry entries: once a query_claude call has
\* returned, with success or with an error, its query id is not in
\* active_queries, so that list_active_queries reports only queries whose
\* call is still in progress.
C29_NoLeakedEntries ==
    \A q \in QueryIds : query_pc[q] = "returned" => q \notin ListResult

\* C30 -- Registry lock liveness: under fair scheduling every call of
\* cancel_query or list_active_queries that waits for the active_queries
\* guard eventually gets it and returns, whatever the child processes do.
C30_LockLiveness ==
    /\ \A c \in CancelTasks : (cancel_pc[c] = "lock") ~> (cancel_pc[c] = "idle")
    /\ (list_pc = "lock") ~> (list_pc = "idle")

====
